---- MODULE Spec2Model ----
(***************************************************************************)
(* A model of the Benford analysis service: the PDF table extraction       *)
(* (core/pdf_parser.py), the numeric fact harvesting and the digit         *)
(* analysis (core/benford_analyzer.py), the report download                *)
(* (core/pdf_downloader.py) and the /api/analyze handler (app.py).         *)
(*                                                                         *)
(* Texts.  A cell text is a sequence of characters, each character a       *)
(* one-token string.  The CJK characters of the source are written by      *)
(* their code point ("U9879" is U+9879).  A page text is the set of the    *)
(* keywords that occur in it: the parser only ever asks `kw in text`.      *)
(***************************************************************************)
EXTENDS Integers, Sequences, FiniteSets, TLC

VARIABLES
    pdf,        \* find_page_range: the document, a sequence of pages
    found,      \* find_page_range: <<start_page, end_page>> once it returned
    header,     \* header repair: table[0] of a captured table
    pipe,       \* extract_tables then harvesting: the tables of a page and
                \* what each stage made of them
    harvestIn,  \* harvesting: the DataFrame handed to the harvester
    harvestOut, \* harvesting: <<values, records>> once it returned
    call,       \* analyze alone: the arguments and the position of one call
    req,        \* handler: per request, its parameters, locals and position
    fs,         \* handler: the temp_reports directory, path -> file content
    heap,       \* analyzer: the dict objects, object id -> mapping
    cache,      \* analyzer: _distribution_cache, key -> object id
    returned    \* analyzer: the mappings _get_theoretical_distribution returned

vars == <<pdf, found, header, pipe, harvestIn, harvestOut, call, req, fs,
          heap, cache, returned>>

parserVars  == <<pdf, found>>
repairVars  == <<header, pipe>>
harvestVars == <<harvestIn, harvestOut>>
callVars    == <<call>>
appVars     == <<req, fs>>
cacheVars   == <<heap, cache, returned>>

\* Python's None, where an index or a digit is expected.
None == -1

NotYet == <<"not yet">>

----------------------------------------------------------------------------
(* Bounds of the model. *)

\* The longest document the page scan is checked on.
MaxPages == 3

\* The widest header the header repair is checked on (9 is the repaired width).
MaxCols == 10

\* The most rows of a DataFrame the harvester is checked on.
MaxHarvestRows == 2

\* The widest data row of a captured table.
MaxRowLen == 5

\* The most numeric cells of a DataFrame analyze is checked on (the gate of
\* the sample size is at 10).
MaxFacts == 11

----------------------------------------------------------------------------
(* core/pdf_parser.py: section localization. *)

\* "财务报表", the preamble marker.
KwPreamble == "caiwubaobiao"
\* "项目", the item token.
KwItem == "xiangmu"
\* "合并资产负债表", the start_keyword extract_tables passes.
KwStart == "hebingzichanfuzhaibiao"
\* "合并所有者权益变动表", the end_keyword extract_tables passes.
KwEnd == "hebingsuoyouzhequanyibiandongbiao"

Keywords == {KwPreamble, KwItem, KwStart, KwEnd}

\* Line 29-30: pre_page after this page's text was read.
PrePageAfter(pre_page, i, text) ==
    IF pre_page = None /\ KwPreamble \in text THEN i ELSE pre_page

\* The start condition with the preamble requirement dropped.
StartConditionNoPreamble(pre_page, start_page, text, start_keyword) ==
    /\ start_page = None
    /\ start_keyword \in text
    /\ (KwPreamble \in text \/ KwItem \in text)

\* Line 31: the condition under which page i becomes start_page.
StartCondition(pre_page, start_page, text, start_keyword) ==
    /\ pre_page # None
    /\ start_page = None
    /\ start_keyword \in text
    /\ (KwPreamble \in text \/ KwItem \in text)

\* Line 34: the condition under which page i becomes end_page.
EndCondition(start_page, text, end_keyword) ==
    start_page # None /\ end_keyword \in text

\* Lines 27-36: the loop over pdf.pages from page i (0-based) on.
RECURSIVE PageLoop(_, _, _, _, _, _)
PageLoop(pages, i, pre_page, start_page, start_keyword, end_keyword) ==
    IF i >= Len(pages) THEN <<start_page, None>>
    ELSE LET text == pages[i + 1].text
             pre  == PrePageAfter(pre_page, i, text)
         IN  IF StartCondition(pre, start_page, text, start_keyword)
             THEN PageLoop(pages, i + 1, pre, i, start_keyword, end_keyword)
             ELSE IF EndCondition(start_page, text, end_keyword)
             THEN <<start_page, i>>
             ELSE PageLoop(pages, i + 1, pre, start_page, start_keyword,
                           end_keyword)

\* find_page_range: <<start_page, end_page>>.
FindPageRange(pages, start_keyword, end_keyword) ==
    PageLoop(pages, 0, None, None, start_keyword, end_keyword)

----------------------------------------------------------------------------
(* Specification of the page scan: any document of up to MaxPages pages,   *)
(* each page with any set of the four keywords in its text.                *)

SeqsUpTo(S, n) == UNION {[1..k -> S] : k \in 0..n}

TextPages == [text : SUBSET Keywords, tables : {<< >>}]

IdleParser  == pdf = << >> /\ found = NotYet
IdleRepair  == header = << >> /\ pipe = << >>
IdleHarvest == harvestIn = << >> /\ harvestOut = NotYet
IdleCall    == call = << >>
IdleApp     == req = << >> /\ fs = << >>
IdleCache   == heap = << >> /\ cache = << >> /\ returned = {}

InitParser ==
    /\ pdf \in SeqsUpTo(TextPages, MaxPages)
    /\ found = NotYet
    /\ IdleRepair /\ IdleHarvest /\ IdleCall /\ IdleApp /\ IdleCache

\* find_page_range(pdf, "合并资产负债表", "合并所有者权益变动表") runs to its return.
FindRange ==
    /\ found = NotYet
    /\ found' = FindPageRange(pdf, KwStart, KwEnd)
    /\ UNCHANGED <<pdf, repairVars, harvestVars, callVars, appVars, cacheVars>>

NextParser == FindRange

SpecParser == InitParser /\ [][NextParser]_vars

----------------------------------------------------------------------------
(* Specification of the page scan page by page: found holds the locals of  *)
(* find_page_range, i the index of the page the loop reads next.           *)

\* An end test that also runs on the page that has just become start_page.
EndTestedOnStartPage(started, start_page, text, end_keyword) ==
    EndCondition(start_page, text, end_keyword)

\* Lines 31-36: the end test of a page.  The continue of line 33 keeps it
\* from the page that has just become start_page.
EndTested(started, start_page, text, end_keyword) ==
    ~started /\ EndCondition(start_page, text, end_keyword)

InitScan ==
    /\ pdf \in SeqsUpTo(TextPages, MaxPages)
    /\ found = [i |-> 0, pre_page |-> None, start_page |-> None,
                end_page |-> None, pc |-> "loop"]
    /\ IdleRepair /\ IdleHarvest /\ IdleCall /\ IdleApp /\ IdleCache

\* Lines 27-36: one turn of the loop, on page i.
ScanPage ==
    /\ found.pc = "loop"
    /\ found.i < Len(pdf)
    /\ LET i       == found.i
           text    == pdf[i + 1].text
           pre     == PrePageAfter(found.pre_page, i, text)
           started == StartCondition(pre, found.start_page, text, KwStart)
           start   == IF started THEN i ELSE found.start_page
           ended   == EndTested(started, start, text, KwEnd)
       IN  found' = [i |-> i + 1, pre_page |-> pre, start_page |-> start,
                     end_page |-> IF ended THEN i ELSE found.end_page,
                     pc |-> IF ended THEN "returned" ELSE "loop"]
    /\ UNCHANGED <<pdf, repairVars, harvestVars, callVars, appVars, cacheVars>>

\* Lines 27 and 37-38: the pages are exhausted and the function returns.
ScanReturn ==
    /\ found.pc = "loop"
    /\ found.i >= Len(pdf)
    /\ found' = [found EXCEPT !.pc = "returned"]
    /\ UNCHANGED <<pdf, repairVars, harvestVars, callVars, appVars, cacheVars>>

NextScan == ScanPage \/ ScanReturn

SpecScan == InitScan /\ [][NextScan]_vars

----------------------------------------------------------------------------
(* C13 *)

\* C13: when find_page_range returns both a start and an end index, start
\* is strictly less than end; the end is only ever set on a page after the
\* start page, and start_page, once set, is never assigned again.
C13_StartBeforeEnd ==
    /\ []((found.pc = "returned" /\ found.start_page # None /\ found.end_page # None)
              => found.start_page < found.end_page)
    /\ [][found.start_page # None => found'.start_page = found.start_page]_vars
    /\ [][found'.end_page # found.end_page =>
              /\ found'.start_page # None
              /\ found'.end_page > found'.start_page]_vars

\* A scan returned both indices although the end marker stood on the start
\* page and on the page before it, and the end page met the start
\* condition again.
C13_Witness ==
    /\ found.pc = "returned"
    /\ found.start_page = 1 /\ found.end_page = 2
    /\ KwEnd \in pdf[1].text /\ KwEnd \in pdf[2].text
    /\ KwStart \in pdf[3].text /\ KwItem \in pdf[3].text

----------------------------------------------------------------------------
(* C6 *)

PageIdx == 0..(Len(pdf) - 1)

\* The least element of a non-empty set of page indices, None of the empty set.
FirstOf(S) == IF S = {} THEN None ELSE CHOOSE i \in S : \A j \in S : i <= j

QualifiesAsStart(i) ==
    /\ KwStart \in pdf[i + 1].text
    /\ (KwPreamble \in pdf[i + 1].text \/ KwItem \in pdf[i + 1].text)

PreambleSeenBy(i) == \E j \in 0..i : KwPreamble \in pdf[j + 1].text

ClaimedStart == FirstOf({i \in PageIdx : QualifiesAsStart(i)})

ActualStart ==
    FirstOf({i \in PageIdx : QualifiesAsStart(i) /\ PreambleSeenBy(i)})

EndAfter(s) ==
    IF s = None THEN None
    ELSE FirstOf({i \in PageIdx : i > s /\ KwEnd \in pdf[i + 1].text})

\* C6 as stated: start is the first page holding the start marker together
\* with the preamble marker or the item token, nothing else being required,
\* and end is the first later page holding the end marker.
C6_AsStated ==
    found # NotYet =>
        /\ found[1] = ClaimedStart
        /\ found[2] = EndAfter(ClaimedStart)

\* C6 amended: start is the first page that holds the start marker together
\* with the preamble marker or the item token AND lies at or after the first
\* page holding the preamble marker; end is the first later page holding the
\* end marker (None when there is none).
C6_PageRange ==
    found # NotYet =>
        /\ found[1] = ActualStart
        /\ found[2] = EndAfter(ActualStart)

\* A scan that found both ends and whose start is not the first page holding
\* the start marker with the item token: an earlier such page was passed
\* over because no preamble marker had been seen yet.
C6_Witness ==
    /\ found # NotYet
    /\ found[1] # None /\ found[2] # None
    /\ \E i \in PageIdx : i < found[1] /\ QualifiesAsStart(i)

----------------------------------------------------------------------------
(* core/pdf_parser.py: header repair.  Columns are numbered from 1 here,   *)
(* from 0 in the source: header_fixed[3] of the source is h[4].            *)

\* '' of the source.
EmptyText == << >>

\* "期末余额" and "期初余额", the two balance labels.
QiMoYuE == <<"U671F", "U672B", "U4F59", "U989D">>
QiChuYuE == <<"U671F", "U521D", "U4F59", "U989D">>

\* A repair that blanks the two columns without moving their labels.
HeaderRepairBlankOnly(h) ==
    IF Len(h) = 9
    THEN [h EXCEPT ![5] = EmptyText, ![8] = EmptyText]
    ELSE h

\* Lines 56-70: table[0] after the repair.
HeaderRepair(h) ==
    IF Len(h) = 9
    THEN [h EXCEPT ![4] = h[5], ![5] = EmptyText, ![7] = h[8], ![8] = EmptyText]
    ELSE h

----------------------------------------------------------------------------
(* Specification of the header repair: any header of up to MaxCols         *)
(* columns, each cell its own letter, up to two cells replaced by a        *)
(* balance label.                                                          *)

Letters == <<"A", "B", "C", "D", "E", "F", "G", "H", "I", "J", "K", "L", "M">>

PlainHeader(n) == [i \in 1..n |-> <<Letters[i]>>]

BalanceLabels == {QiMoYuE, QiChuYuE}

Headers ==
    UNION {
        {PlainHeader(n)}
        \cup {[PlainHeader(n) EXCEPT ![i] = a] :
                 i \in 1..n, a \in BalanceLabels}
        \cup {[PlainHeader(n) EXCEPT ![i] = a, ![j] = b] :
                 i \in 1..n, j \in 1..n, a \in BalanceLabels, b \in BalanceLabels}
        : n \in 1..MaxCols}

InitRepair ==
    /\ header \in [raw : Headers, fixed : {NotYet}]
    /\ pipe = << >>
    /\ IdleParser /\ IdleHarvest /\ IdleCall /\ IdleApp /\ IdleCache

\* The repair of extract_tables on the header row of a captured table.
RepairHeader ==
    /\ header.fixed = NotYet
    /\ header' = [header EXCEPT !.fixed = HeaderRepair(header.raw)]
    /\ UNCHANGED <<pipe, parserVars, harvestVars, callVars, appVars, cacheVars>>

NextRepair == RepairHeader

SpecRepair == InitRepair /\ [][NextRepair]_vars

----------------------------------------------------------------------------
(* C5 *)

\* [A, B, C, D, "期末余额", F, "期初余额", H, I], the header of the claim.
C5_ClaimHeader ==
    [PlainHeader(9) EXCEPT ![5] = QiMoYuE, ![7] = QiChuYuE]

\* [A, B, C, "期末余额", "", F, "期初余额", "", I], the result the claim gives.
C5_ClaimResult ==
    [PlainHeader(9) EXCEPT ![4] = QiMoYuE, ![5] = EmptyText,
                           ![7] = QiChuYuE, ![8] = EmptyText]

\* [A, B, C, D, "期末余额", F, G, "期初余额", I]: both labels one column to the
\* right of where the repaired header has them.
C5_ShiftedHeader ==
    [PlainHeader(9) EXCEPT ![5] = QiMoYuE, ![8] = QiChuYuE]

\* C5 as stated: the header [A, B, C, D, "期末余额", F, "期初余额", H, I] becomes
\* [A, B, C, "期末余额", "", F, "期初余额", "", I], and a header that has not
\* exactly 9 columns is left unchanged.
C5_AsStated ==
    header.fixed # NotYet =>
        /\ header.raw = C5_ClaimHeader => header.fixed = C5_ClaimResult
        /\ Len(header.raw) # 9 => header.fixed = header.raw

\* C5 amended: on a 9-column header the repair moves what stands in columns
\* 4 and 7 (0-based) one column left, over columns 3 and 6, and blanks columns
\* 4 and 7, the other five columns keeping their cells; so the header
\* [A, B, C, D, "期末余额", F, G, "期初余额", I] becomes
\* [A, B, C, "期末余额", "", F, "期初余额", "", I], while the header of the claim,
\* whose "期初余额" is already in column 6, loses that label to H; a header
\* that has not exactly 9 columns is left unchanged.
C5_HeaderRepair ==
    header.fixed # NotYet =>
        LET h == header.raw
            f == header.fixed
        IN  /\ Len(f) = Len(h)
            /\ Len(h) = 9 =>
                  /\ f[4] = h[5] /\ f[5] = EmptyText
                  /\ f[7] = h[8] /\ f[8] = EmptyText
                  /\ \A i \in {1, 2, 3, 6, 9} : f[i] = h[i]
            /\ h = C5_ShiftedHeader => f = C5_ClaimResult
            /\ h = C5_ClaimHeader =>
                  f = [C5_ClaimResult EXCEPT ![7] = <<"H">>]
            /\ Len(h) # 9 => f = h

\* The repair has run on the 9-column header with the two labels in columns
\* 4 and 7 (0-based), and has moved both.
C5_Witness ==
    /\ header.fixed # NotYet
    /\ header.raw = C5_ShiftedHeader
    /\ header.fixed[4] = QiMoYuE /\ header.fixed[7] = QiChuYuE

----------------------------------------------------------------------------
(* Texts and numbers.                                                      *)
(*                                                                         *)
(* A float is [neg, ip, fp]: its sign, its integer part and the digits of  *)
(* its fraction without trailing zeros.  This is exact for the decimal     *)
(* numerals of the model, which have at most 9 integer digits and so stay  *)
(* below the 2^53 and 1e16 limits where Python's float and str(float)      *)
(* stop being exact or positional.                                         *)

DigitChars == <<"0", "1", "2", "3", "4", "5", "6", "7", "8", "9">>

IsDigit(c) == \E i \in 1..10 : DigitChars[i] = c

DigitOf(c) == (CHOOSE i \in 1..10 : DigitChars[i] = c) - 1

UpperChars == <<"A", "B", "C", "D", "E", "F", "G", "H", "I", "J", "K", "L", "M",
                "N", "O", "P", "Q", "R", "S", "T", "U", "V", "W", "X", "Y", "Z">>
LowerChars == <<"a", "b", "c", "d", "e", "f", "g", "h", "i", "j", "k", "l", "m",
                "n", "o", "p", "q", "r", "s", "t", "u", "v", "w", "x", "y", "z">>

\* str.lower(), character by character.
LowerChar(c) ==
    IF \E i \in 1..26 : UpperChars[i] = c
    THEN LowerChars[CHOOSE i \in 1..26 : UpperChars[i] = c]
    ELSE c

Lower(s) == [i \in 1..Len(s) |-> LowerChar(s[i])]

\* The characters str.strip() removes at both ends and \s matches.
Whitespace == {" ", "\n", "\t"}

\* s.replace(c, '') for a one-character c.
Remove(s, c) == SelectSeq(s, LAMBDA x : x # c)

RECURSIVE LStrip(_)
LStrip(s) == IF s # << >> /\ Head(s) \in Whitespace THEN LStrip(Tail(s)) ELSE s

RECURSIVE RStrip(_)
RStrip(s) ==
    IF s # << >> /\ s[Len(s)] \in Whitespace
    THEN RStrip(SubSeq(s, 1, Len(s) - 1))
    ELSE s

\* str.strip().
Strip(s) == RStrip(LStrip(s))

\* `sub in s` of two strings.
Contains(s, sub) ==
    \E i \in 1..(Len(s) - Len(sub) + 1) : SubSeq(s, i, i + Len(sub) - 1) = sub

\* Python's slice s[a:b] (0-based, end excluded), for 0 <= a <= b.
Slice(s, a, b) ==
    SubSeq(s, a + 1, IF b < Len(s) THEN b ELSE Len(s))

AllDigits(s) == s # << >> /\ \A i \in 1..Len(s) : IsDigit(s[i])

\* The value of a string of digits.
RECURSIVE DigitsValue(_)
DigitsValue(s) ==
    IF s = << >> THEN 0
    ELSE 10 * DigitsValue(SubSeq(s, 1, Len(s) - 1)) + DigitOf(s[Len(s)])

\* int(s) of an optional '-' and digits.
ParseInt(s) ==
    IF s # << >> /\ Head(s) = "-" THEN 0 - DigitsValue(Tail(s))
    ELSE DigitsValue(s)

\* The decimal digits of a natural number: str(n).
RECURSIVE NatStr(_)
NatStr(n) ==
    IF n < 10 THEN <<DigitChars[n + 1]>>
    ELSE NatStr(n \div 10) \o <<DigitChars[(n % 10) + 1]>>

RECURSIVE DropTrailingZeros(_)
DropTrailingZeros(ds) ==
    IF ds # << >> /\ ds[Len(ds)] = 0
    THEN DropTrailingZeros(SubSeq(ds, 1, Len(ds) - 1))
    ELSE ds

\* The position of the '.' in s, 0 when there is none.
DotAt(s) ==
    IF \E i \in 1..Len(s) : s[i] = "."
    THEN CHOOSE i \in 1..Len(s) : s[i] = "." /\ \A j \in 1..(i - 1) : s[j] # "."
    ELSE 0

\* re.compile(r'^-?\d+(\.\d+)?$').fullmatch(s)
NumberPattern(s) ==
    LET body == IF s # << >> /\ Head(s) = "-" THEN Tail(s) ELSE s
        dot  == DotAt(body)
    IN  IF dot = 0 THEN AllDigits(body)
        ELSE /\ AllDigits(SubSeq(body, 1, dot - 1))
             /\ AllDigits(SubSeq(body, dot + 1, Len(body)))

\* float(s) of a string that matches NumberPattern.
ParseFloat(s) ==
    LET neg  == s # << >> /\ Head(s) = "-"
        body == IF neg THEN Tail(s) ELSE s
        dot  == DotAt(body)
        int  == IF dot = 0 THEN body ELSE SubSeq(body, 1, dot - 1)
        frac == IF dot = 0 THEN << >> ELSE SubSeq(body, dot + 1, Len(body))
    IN  [neg |-> neg,
         ip  |-> DigitsValue(int),
         fp  |-> DropTrailingZeros([i \in 1..Len(frac) |-> DigitOf(frac[i])])]

\* float.is_integer()
IsInteger(v) == v.fp = << >>

IsZero(v) == v.ip = 0 /\ v.fp = << >>

\* abs(val)
Abs(v) == [v EXCEPT !.neg = FALSE]

\* str(int(val)): int() truncates towards zero, and int(-0.5) is 0.
IntStr(v) ==
    IF v.neg /\ v.ip # 0 THEN <<"-">> \o NatStr(v.ip) ELSE NatStr(v.ip)

\* str(val) of a float: the shortest repr, positional below 1e16.
FloatStr(v) ==
    (IF v.neg THEN <<"-">> ELSE << >>)
    \o NatStr(v.ip) \o <<".">>
    \o (IF v.fp = << >> THEN <<"0">> ELSE [i \in 1..Len(v.fp) |-> DigitChars[v.fp[i] + 1]])

\* A DataFrame cell is a string, a float or NaN.
StrCell(s)   == [kind |-> "str", chars |-> s, val |-> << >>]
FloatCell(v) == [kind |-> "float", chars |-> << >>, val |-> v]
NaNCell      == [kind |-> "nan", chars |-> << >>, val |-> << >>]

\* pd.isna(item)
IsNa(item) == item.kind = "nan"

\* str(item)
StrOf(item) ==
    CASE item.kind = "str"   -> item.chars
      [] item.kind = "float" -> FloatStr(item.val)
      [] OTHER               -> <<"n", "a", "n">>

----------------------------------------------------------------------------
(* core/benford_analyzer.py: _extract_valid_numbers_with_details.          *)
(* A DataFrame is [columns, rows]: the column names and the rows of cells; *)
(* its index is 0, 1, ... as pd.DataFrame(data, columns=headers) makes it. *)

\* "项目", "附注", "注释", "行次".
XiangMu == <<"U9879", "U76EE">>
FuZhu   == <<"U9644", "U6CE8">>
ZhuShi  == <<"U6CE8", "U91CA">>
HangCi  == <<"U884C", "U6B21">>

\* Line 97.
ignore_keywords == {FuZhu, <<"n", "o", "t", "e">>, ZhuShi, HangCi}

\* Lines 102-110: the index of the first column that names the items, else
\* the first column, else None.
LabelCol(df) ==
    LET hit(c) == \/ Contains(Lower(df.columns[c]), XiangMu)
                  \/ Contains(Lower(df.columns[c]), <<"i", "t", "e", "m">>)
        n == Len(df.columns)
    IN  IF \E c \in 1..n : hit(c)
        THEN df.columns[CHOOSE c \in 1..n : hit(c) /\ \A b \in 1..(c - 1) : ~hit(b)]
        ELSE IF n > 0 THEN df.columns[1]
        ELSE <<"None">>

\* A date test that leaves the day of the month unchecked.
is_date_like_no_day(val_float) ==
    IF ~IsInteger(val_float) THEN FALSE
    ELSE LET s == IntStr(val_float)
         IN  /\ Len(s) = 8
             /\ ParseInt(Slice(s, 0, 4)) \in 1990..2030
             /\ ParseInt(Slice(s, 4, 6)) \in 1..12

\* Lines 113-123.
is_date_like(val_float) ==
    IF ~IsInteger(val_float) THEN FALSE
    ELSE LET s == IntStr(val_float)
         IN  /\ Len(s) = 8
             /\ ParseInt(Slice(s, 0, 4)) \in 1990..2030
             /\ ParseInt(Slice(s, 4, 6)) \in 1..12
             /\ ParseInt(Slice(s, 6, 8)) \in 1..31

\* Line 126.
ColClean(col) == Remove(Remove(Lower(col), " "), "\n")

\* A column test that lets the columns without a name through.
SkipColumnNamedOnly(df, c) ==
    LET col == df.columns[c]
    IN  \/ col = LabelCol(df)
        \/ \E keyword \in ignore_keywords : Contains(ColClean(col), keyword)

\* Lines 127-131: the columns the harvester passes over.
SkipColumn(df, c) ==
    LET col == df.columns[c]
    IN  \/ ColClean(col) = << >>
        \/ col = LabelCol(df)
        \/ \E keyword \in ignore_keywords : Contains(ColClean(col), keyword)

\* Lines 134-143: whether the cell yields a fact.
YieldsFact(item) ==
    /\ ~IsNa(item)
    /\ LET s == Remove(Strip(StrOf(item)), ",")
       IN  /\ NumberPattern(s)
           /\ LET val == ParseFloat(s)
              IN  /\ ~IsZero(val)
                  /\ ~(IsInteger(val) /\ ~val.neg /\ val.ip \in 1990..2030)
                  /\ ~is_date_like(val)

\* Lines 149-157: the text of the label column in row r.
RowLabel(df, r) ==
    LET cs == {c \in 1..Len(df.columns) : df.columns[c] = LabelCol(df)}
    IN  IF Cardinality(cs) # 1 THEN <<"N", "/", "A">>
        ELSE LET item == df.rows[r][CHOOSE c \in cs : \A b \in cs : c <= b]
             IN  IF IsNa(item) THEN <<"N", "/", "A">>
                 ELSE [i \in 1..Len(Strip(StrOf(item))) |->
                          IF Strip(StrOf(item))[i] = "\n" THEN " "
                          ELSE Strip(StrOf(item))[i]]

\* Lines 145-165: the record of the fact of cell (r, c).
FactOf(df, r, c) ==
    LET item == df.rows[r][c]
        val  == ParseFloat(Remove(Strip(StrOf(item)), ","))
    IN  [row_label       |-> RowLabel(df, r),
         column_name     |-> df.columns[c],
         original_text   |-> StrOf(item),
         extracted_value |-> Abs(val),
         row_index       |-> r - 1]

\* Lines 133-167: the records of column c from row r on.
RECURSIVE HarvestColumn(_, _, _)
HarvestColumn(df, c, r) ==
    IF r > Len(df.rows) THEN << >>
    ELSE (IF YieldsFact(df.rows[r][c]) THEN <<FactOf(df, r, c)>> ELSE << >>)
         \o HarvestColumn(df, c, r + 1)

\* Lines 125-167: the records of the columns from c on.
RECURSIVE HarvestColumns(_, _)
HarvestColumns(df, c) ==
    IF c > Len(df.columns) THEN << >>
    ELSE (IF SkipColumn(df, c) THEN << >> ELSE HarvestColumn(df, c, 1))
         \o HarvestColumns(df, c + 1)

\* _extract_valid_numbers_with_details: <<values, records>>.
ExtractValidNumbers(df) ==
    LET records == HarvestColumns(df, 1)
    IN  <<[i \in 1..Len(records) |-> records[i].extracted_value], records>>

----------------------------------------------------------------------------
(* Specification of the harvester: a DataFrame of up to MaxHarvestRows     *)
(* rows under one of four headers, one cell of it a probe and the others   *)
(* fixed.  The columns that have a name have distinct names.  A probe is   *)
(* an 8-digit numeral YYYYMMDD around the limits of the date test, held    *)
(* as a string, as the float the parser makes of it, with thousands        *)
(* separators or with blanks around it; or one of a few other texts.       *)

Text_Item   == <<"I", "t", "e", "m">>
Text_Note1  == <<"N", "o", "t", "e", " ", "1">>
Text_Amount == <<"A", "m", "o", "u", "n", "t">>
\* "货币资金"
Text_Cash   == <<"U8D27", "U5E01", "U8D44", "U91D1">>

\* Each column with what the header means it to be.
HarvestLayouts == {
    [columns |-> <<XiangMu, FuZhu, QiMoYuE, QiChuYuE>>,
     roles   |-> <<"label", "note", "value", "value">>],
    [columns |-> <<QiMoYuE, QiChuYuE>>,
     roles   |-> <<"label", "value">>],
    [columns |-> <<XiangMu, EmptyText, QiMoYuE>>,
     roles   |-> <<"label", "unnamed", "value">>],
    [columns |-> <<Text_Item, Text_Note1, Text_Amount>>,
     roles   |-> <<"label", "note", "value">>] }

ProbeYears  == {1989, 1990, 2023, 2030, 2031}
ProbeMonths == {0, 1, 6, 12, 13}
ProbeDays   == {0, 1, 15, 31, 45}
ProbeForms  == {"plain", "float", "commas", "padded"}

TwoDigits(n) == <<DigitChars[(n \div 10) + 1], DigitChars[(n % 10) + 1]>>

FourDigits(n) == TwoDigits(n \div 100) \o TwoDigits(n % 100)

\* The cell that holds the numeral YYYYMMDD in the given form.
DateProbe(y, m, d, form) ==
    LET ys == FourDigits(y)
        ms == TwoDigits(m)
        ds == TwoDigits(d)
    IN  CASE form = "plain"  -> StrCell(ys \o ms \o ds)
          [] form = "float"  ->
                FloatCell([neg |-> FALSE, ip |-> y * 10000 + m * 100 + d,
                           fp |-> << >>])
          [] form = "commas" ->
                StrCell(SubSeq(ys, 1, 2) \o <<",">> \o SubSeq(ys, 3, 4)
                        \o <<ms[1], ",">> \o <<ms[2]>> \o ds)
          [] OTHER           -> StrCell(<<" ">> \o ys \o ms \o ds \o <<" ", "\n">>)

DateProbes ==
    {[item |-> DateProbe(y, m, d, f), ymd |-> <<y, m, d>>] :
        y \in ProbeYears, m \in ProbeMonths, d \in ProbeDays, f \in ProbeForms}

OtherProbes ==
    {[item |-> i, ymd |-> << >>] : i \in {
        StrCell(<<"2", "0", "2", "1">>),
        StrCell(<<"0">>),
        StrCell(<<"0", ".", "0", "0">>),
        StrCell(<<"-", "2", "0", "2", "3", "0", "6", "1", "5">>),
        StrCell(<<"2", "0", "2", "3", "0", "6", "1", "5", ".", "5">>),
        StrCell(<<"1", "2", "a">>),
        StrCell(<<"1", ".">>),
        StrCell(EmptyText),
        FloatCell([neg |-> FALSE, ip |-> 0, fp |-> << >>]),
        FloatCell([neg |-> TRUE, ip |-> 12, fp |-> <<5>>]),
        NaNCell}}

\* The cell of the fixed rows in a column of the given role.
FillerCell(role) ==
    IF role = "label" THEN StrCell(Text_Cash)
    ELSE StrCell(<<"1", ",", "2", "3", "4", ".", "5", "0">>)

HarvestInputs ==
    {[df  |-> [columns |-> l.columns,
               rows    |-> [r \in 1..n |-> [c \in 1..Len(l.columns) |->
                               IF r = pr /\ c = pc THEN p.item
                               ELSE FillerCell(l.roles[c])]]],
      roles |-> l.roles, row |-> pr, col |-> pc, ymd |-> p.ymd] :
        l \in HarvestLayouts, n \in 1..MaxHarvestRows, pr \in 1..MaxHarvestRows,
        pc \in 1..4, p \in DateProbes \cup OtherProbes}

InitHarvest ==
    /\ harvestIn \in {h \in HarvestInputs :
                          h.row <= Len(h.df.rows) /\ h.col <= Len(h.df.columns)}
    /\ harvestOut = NotYet
    /\ IdleParser /\ IdleRepair /\ IdleCall /\ IdleApp /\ IdleCache

\* _extract_valid_numbers_with_details(df) runs to its return.
Harvest ==
    /\ harvestOut = NotYet
    /\ harvestOut' = ExtractValidNumbers(harvestIn.df)
    /\ UNCHANGED <<harvestIn, parserVars, repairVars, callVars, appVars, cacheVars>>

NextHarvest == Harvest

SpecHarvest == InitHarvest /\ [][NextHarvest]_vars

----------------------------------------------------------------------------
(* C9 *)

\* The facts that come from the probe cell.
ProbeFacts ==
    {i \in 1..Len(harvestOut[2]) :
        /\ harvestOut[2][i].row_index = harvestIn.row - 1
        /\ harvestOut[2][i].column_name = harvestIn.df.columns[harvestIn.col]}

\* The probe is an 8-digit integer YYYYMMDD in a column that is neither the
\* label column nor a note column (and has a name).
ProbeIsEightDigitValue ==
    /\ harvestIn.ymd # << >>
    /\ harvestIn.roles[harvestIn.col] = "value"

DateShaped(ymd) ==
    ymd[1] \in 1990..2030 /\ ymd[2] \in 1..12 /\ ymd[3] \in 1..31

----------------------------------------------------------------------------
(* core/benford_analyzer.py: the digit of a number, the theoretical        *)
(* distribution and analyze.                                               *)
(*                                                                         *)
(* The digit is computed in exact arithmetic.  The source computes it in   *)
(* floating point (math.log and the power operator), and the two agree on the numbers the     *)
(* model analyses (3, 29, 117, 12.5, 1234.5: bases 8, 10, 16, positions    *)
(* -2..4).  The one rounding case the model keeps is 0.9999999999999999,   *)
(* the float below 1: its logarithm is so small that                       *)
(* log_val - floor(log_val) rounds to 1.0 and normalized to base.          *)
(*                                                                         *)
(* A probability is the term the source computes it by, a chi-square       *)
(* statistic the sum it is of: the model has no logarithm.                 *)

RECURSIVE Pow(_, _)
Pow(b, e) == IF e <= 0 THEN 1 ELSE b * Pow(b, e - 1)

\* The value of a sequence of digits given as numbers.
RECURSIVE FracValue(_)
FracValue(ds) ==
    IF ds = << >> THEN 0
    ELSE 10 * FracValue(SubSeq(ds, 1, Len(ds) - 1)) + ds[Len(ds)]

Nines16 == [i \in 1..16 |-> 9]

\* num is the float 1 - 2^-53, written 0.9999999999999999.
IsJustBelowOne(num) == num.ip = 0 /\ num.fp = Nines16

\* The largest k with base^k * den <= n, for n >= den.
RECURSIVE FloorLogUp(_, _, _, _)
FloorLogUp(n, den, base, k) ==
    IF den * Pow(base, k + 1) <= n THEN FloorLogUp(n, den, base, k + 1) ELSE k

\* The least j with n * base^j >= den, for n < den.
RECURSIVE FloorLogDown(_, _, _, _)
FloorLogDown(n, den, base, j) ==
    IF n * Pow(base, j) >= den THEN j ELSE FloorLogDown(n, den, base, j + 1)

\* Lines 175-179 for num = n / den: int(shifted) % base.
ShiftedDigit(n, den, base, position) ==
    LET k == IF n >= den THEN FloorLogUp(n, den, base, 0)
             ELSE 0 - FloorLogDown(n, den, base, 1)
        e == position - 1 - k
    IN  (IF e >= 0 THEN (n * Pow(base, e)) \div den
         ELSE n \div (den * Pow(base, 0 - e))) % base

\* Lines 172-182.
GetDigitAtPosition(num, base, position) ==
    IF num.neg \/ IsZero(num) THEN None
    ELSE LET digit ==
                 IF IsJustBelowOne(num)
                 THEN (IF position = 0 THEN 1 ELSE 0)
                 ELSE ShiftedDigit(num.ip * Pow(10, Len(num.fp)) + FracValue(num.fp),
                                   Pow(10, Len(num.fp)), base, position)
         IN  IF position = 1 /\ digit = 0 THEN None ELSE digit

\* Lines 191-195: the probability of digit d, as the term that computes it.
Prob(base, position, d) ==
    CASE position = 1 -> <<"log(1 + 1/d, base)", base, d>>
      [] position = 2 -> <<"sum k in 1..base-1 of log(1 + 1/(k*base + d), base)", base, d>>
      [] OTHER        -> <<"1.0 / base", base>>

\* Lines 188-196: the dict _get_theoretical_distribution builds.
TheoreticalDistribution(base, position) ==
    [d \in (IF position = 1 THEN 1 ELSE 0)..(base - 1) |-> Prob(base, position, d)]

\* Lines 201-203.
FormatDigit(digit) ==
    IF digit < 10 THEN DigitChars[digit + 1]
    ELSE UpperChars[digit - 10 + 1]

\* Line 19.
base_map == [decimal |-> 10, octal |-> 8, hexadecimal |-> 16]

\* The dict objects of the analyzer live in heap, a sequence: a reference is
\* an index of it.  cache maps a key <<base, position>> to a reference.

\* Line 186.
CacheHit(key) == key \in DOMAIN cache

\* Line 37.
ZeroCounts(keys) == [d \in keys |-> 0]

\* A loop body that counts every fact in the sample size, whether or not its
\* digit was counted.
LoopBodyCountsAll(acc, digit, rec) ==
    IF digit # None /\ digit \in DOMAIN acc.counts
    THEN [counts   |-> [acc.counts EXCEPT ![digit] = @ + 1],
          valid_sample_count |-> acc.valid_sample_count + 1,
          enriched |-> Append(acc.enriched,
                          [rec |-> rec, extracted_digit |-> FormatDigit(digit)])]
    ELSE [acc EXCEPT !.valid_sample_count = @ + 1]

\* Lines 45-49: the body of the loop, for the digit of one fact.  acc is
\* counts, valid_sample_count and enriched_records.
LoopBody(acc, digit, rec) ==
    IF digit # None /\ digit \in DOMAIN acc.counts
    THEN [counts   |-> [acc.counts EXCEPT ![digit] = @ + 1],
          valid_sample_count |-> acc.valid_sample_count + 1,
          enriched |-> Append(acc.enriched,
                          [rec |-> rec, extracted_digit |-> FormatDigit(digit)])]
    ELSE acc

\* Lines 41-49: the loop from fact i on.
RECURSIVE CountLoop(_, _, _, _, _, _)
CountLoop(numbers, records, i, base, position, acc) ==
    IF i > Len(numbers) THEN acc
    ELSE CountLoop(numbers, records, i + 1, base, position,
             LoopBody(acc, GetDigitAtPosition(numbers[i], base, position),
                      records[i]))

\* Lines 37-49.
CountDigits(numbers, records, base, position, keys) ==
    CountLoop(numbers, records, 1, base, position,
              [counts |-> ZeroCounts(keys), valid_sample_count |-> 0,
               enriched |-> << >>])

\* Lines 26-30.
EmptyMetadata(base, digit_position) ==
    [base |-> base, digit_position |-> digit_position, sample_size |-> 0,
     degrees_of_freedom |-> 0, p_value |-> <<"1.0">>,
     critical_value_95 |-> <<"0.0">>, theoretical_distribution |-> << >>]

ZeroStatistic == <<"0.0">>

\* "样本数量过少 (<10)，无法进行有效分析。"
InsufficientSample == <<"insufficient sample (<10)">>
\* "未提取到有效位数的数字"
NoValidDigit == <<"no number with a digit at the position">>

\* Lines 33 and 52: the empty result.
EmptyResult(conclusion, base, digit_position) ==
    [actual |-> << >>, chi_square |-> ZeroStatistic, counts |-> << >>,
     conclusion |-> conclusion, metadata |-> EmptyMetadata(base, digit_position),
     raw_records |-> << >>]

\* A gate that lets a sample of 9 facts through.
SampleTooSmallBelow9(numbers) == Len(numbers) < 9

\* Line 32.
SampleTooSmall(numbers) == Len(numbers) < 10

\* Re-keying by the formatted digit (lines 67-71).
Formatted(dict) ==
    [k \in {FormatDigit(d) : d \in DOMAIN dict} |->
        dict[CHOOSE d \in DOMAIN dict : FormatDigit(d) = k]]

\* Lines 54-87: the result of a sample with at least one counted digit.  A
\* frequency v / valid_sample_count is the pair <<v, valid_sample_count>>.
FullResult(counts, dist, valid_sample_count, enriched, base, digit_position, numeral_system) ==
    [actual     |-> Formatted([d \in DOMAIN counts |->
                                  <<counts[d], valid_sample_count>>]),
     chi_square |-> <<"sum over d of (obs - exp)^2 / exp", counts,
                      valid_sample_count>>,
     counts     |-> Formatted(counts),
     conclusion |-> [system  |-> numeral_system,
                     warning |-> valid_sample_count < 50,
                     risk    |-> <<"by p_value">>],
     metadata   |-> [base |-> base, digit_position |-> digit_position,
                     sample_size |-> valid_sample_count,
                     degrees_of_freedom |-> Cardinality(DOMAIN dist) - 1,
                     p_value |-> <<"chi2.sf(chi_square, df)">>,
                     critical_value_95 |-> <<"chi2.ppf(0.95, df)">>,
                     theoretical_distribution |-> Formatted(dist)],
     raw_records |-> enriched]

\* The state of one call of analyze: its arguments, its locals and where it
\* stands.
NewCall(df, digit_position, numeral_system) ==
    [pc |-> "start", df |-> df, digit_position |-> digit_position,
     numeral_system |-> numeral_system, base |-> None, numbers |-> << >>,
     records |-> << >>, dist |-> None, built |-> << >>, result |-> << >>]

NoCall == [pc |-> "none"]

\* Lines 19-33: the numeral system is looked up, the facts are harvested and
\* the sample size is tested.
AnalyzeStart(p) ==
    /\ call[p].pc = "start"
    /\ LET c == call[p] IN
       IF c.numeral_system \notin DOMAIN base_map
       THEN call' = [call EXCEPT ![p].pc = "raised",
                                 ![p].result = <<"ValueError">>]
       ELSE LET base == base_map[c.numeral_system]
                h    == ExtractValidNumbers(c.df)
            IN  IF SampleTooSmall(h[1])
                THEN call' = [call EXCEPT
                         ![p].pc = "returned", ![p].base = base,
                         ![p].numbers = h[1], ![p].records = h[2],
                         ![p].result = EmptyResult(InsufficientSample, base,
                                                   c.digit_position)]
                ELSE call' = [call EXCEPT
                         ![p].pc = "lookup", ![p].base = base,
                         ![p].numbers = h[1], ![p].records = h[2]]
    /\ UNCHANGED <<parserVars, repairVars, harvestVars, appVars, cacheVars>>

\* Lines 185-187: the key is in the cache, and its dict is returned.
DistributionHit(p) ==
    /\ call[p].pc = "lookup"
    /\ LET key == <<call[p].base, call[p].digit_position>> IN
       /\ CacheHit(key)
       /\ call' = [call EXCEPT ![p].pc = "count", ![p].dist = cache[key]]
       /\ returned' = returned \cup {<<key, heap[cache[key]]>>}
    /\ UNCHANGED <<parserVars, repairVars, harvestVars, appVars, heap, cache>>

\* Lines 185-196: the key is not in the cache, and a dict is built.
DistributionMiss(p) ==
    /\ call[p].pc = "lookup"
    /\ LET key == <<call[p].base, call[p].digit_position>> IN
       /\ ~CacheHit(key)
       /\ call' = [call EXCEPT
              ![p].pc = "insert",
              ![p].built = TheoreticalDistribution(key[1], key[2])]
    /\ UNCHANGED <<parserVars, repairVars, harvestVars, appVars, cacheVars>>

\* Lines 197-199: the dict built is stored under the key, over what another
\* call may have stored meanwhile, and returned.
DistributionInsert(p) ==
    /\ call[p].pc = "insert"
    /\ LET key == <<call[p].base, call[p].digit_position>>
           ref == Len(heap) + 1
       IN  /\ heap' = Append(heap, call[p].built)
           /\ cache' = [k \in DOMAIN cache \cup {key} |->
                           IF k = key THEN ref ELSE cache[k]]
           /\ call' = [call EXCEPT ![p].pc = "count", ![p].dist = ref]
           /\ returned' = returned \cup {<<key, call[p].built>>}
    /\ UNCHANGED <<parserVars, repairVars, harvestVars, appVars>>

\* A counting loop that counts in the dict it was given: each slot of the
\* dict holds the count of its digit in place of the probability.
CountsDictAliased(h, dist, counts) ==
    [h EXCEPT ![dist] = [d \in DOMAIN h[dist] |-> <<"count", counts[d]>>]]

\* Line 37: counts is a dict of its own, local to the call, so the loop of
\* lines 41-49 leaves the dict of the theoretical distribution as it was.
CountsDictFresh(h, dist, counts) == h

\* Lines 37-87: the digits are counted and the result is made.
AnalyzeCount(p) ==
    /\ call[p].pc = "count"
    /\ LET c      == call[p]
           dist   == heap[c.dist]
           acc    == CountDigits(c.numbers, c.records, c.base, c.digit_position,
                                 DOMAIN dist)
           counts == acc.counts
           n      == acc.valid_sample_count
       IN  /\ heap' = CountsDictFresh(heap, c.dist, counts)
           /\ call' = [call EXCEPT
                  ![p].pc = "returned",
                  ![p].result =
                      IF n = 0
                      THEN EmptyResult(NoValidDigit, c.base, c.digit_position)
                      ELSE FullResult(counts, dist, n, acc.enriched, c.base,
                                      c.digit_position, c.numeral_system)]
    /\ UNCHANGED <<parserVars, repairVars, harvestVars, appVars, cache, returned>>

AnalyzeStep(p) ==
    \/ AnalyzeStart(p)
    \/ DistributionHit(p)
    \/ DistributionMiss(p)
    \/ DistributionInsert(p)
    \/ AnalyzeCount(p)

----------------------------------------------------------------------------
(* Specification of analyze alone: one caller, who calls analyze and, once *)
(* it returned, calls it again with the same arguments (the analyzer and   *)
(* its cache outlive a call).  The DataFrame has a label column and one    *)
(* value column of up to MaxFacts cells, each "3", "29" or                 *)
(* "0.9999999999999999"; the numeral system is one of the three supported  *)
(* or "binary"; the digit position is -1, 0, 1, 2 or 3.                    *)

Text_JustBelowOne == <<"0", ".">> \o [i \in 1..16 |-> "9"]

AnalysisTexts == <<<<"3">>, <<"2", "9">>, Text_JustBelowOne>>

\* a cells "3", then b cells "29", then c cells "0.9999999999999999".
AnalysisFrame(a, b, c) ==
    [columns |-> <<XiangMu, QiMoYuE>>,
     rows    |-> [r \in 1..(a + b + c) |->
                    <<StrCell(Text_Cash),
                      StrCell(AnalysisTexts[IF r <= a THEN 1
                                            ELSE IF r <= a + b THEN 2 ELSE 3])>>]]

AnalysisFrames ==
    {AnalysisFrame(a, b, c) :
        a \in 0..MaxFacts, b \in 0..MaxFacts, c \in 0..2}

NumeralSystems == {"decimal", "octal", "hexadecimal", "binary"}

DigitPositions == {-1, 0, 1, 2, 3}

Solo == "solo"

InitAnalyze ==
    /\ \E df \in {f \in AnalysisFrames : Len(f.rows) <= MaxFacts},
          position \in DigitPositions, system \in NumeralSystems :
          call = [p \in {Solo} |-> NewCall(df, position, system)]
    /\ heap = << >> /\ cache = << >> /\ returned = {}
    /\ IdleParser /\ IdleRepair /\ IdleHarvest /\ IdleApp

\* The caller calls analyze again with the same arguments.
CallAgain(p) ==
    /\ call[p].pc \in {"returned", "raised"}
    /\ call' = [call EXCEPT
           ![p] = NewCall(call[p].df, call[p].digit_position,
                          call[p].numeral_system)]
    /\ UNCHANGED <<parserVars, repairVars, harvestVars, appVars, cacheVars>>

NextAnalyze == AnalyzeStep(Solo) \/ CallAgain(Solo)

SpecAnalyze == InitAnalyze /\ [][NextAnalyze]_vars

----------------------------------------------------------------------------
(* C2, C7, C8: analyze alone *)

solo == call[Solo]

\* C2 as stated: a call whose digit_position is below 1 ends in a
\* configuration error: it never returns a result, empty or not, and no
\* distribution is computed or cached for such a position.
C2_AsStated ==
    solo.digit_position < 1 =>
        /\ solo.pc \in {"start", "raised"}
        /\ \A key \in DOMAIN cache : key[2] >= 1

\* The facts the harvester finds in the DataFrame of the call.
SoloFacts == ExtractValidNumbers(solo.df)[1]

\* C7: once the facts are harvested and there are fewer than 10 of them,
\* analyze returns, without a further step, the "insufficient sample"
\* conclusion with empty frequency and count maps, a zero chi-square
\* statistic and an empty list of annotated facts, whatever the digit
\* position and the numeral system.
C7_SampleGate ==
    (solo.pc \notin {"start", "raised"} /\ Len(SoloFacts) < 10) =>
        /\ solo.pc = "returned"
        /\ solo.result.conclusion = InsufficientSample
        /\ solo.result.actual = << >>
        /\ solo.result.counts = << >>
        /\ solo.result.chi_square = ZeroStatistic
        /\ solo.result.raw_records = << >>
        /\ solo.result.metadata.sample_size = 0

\* A call with 9 facts, hexadecimal digits and digit position 0 has returned
\* the "insufficient sample" result.
C7_Witness ==
    /\ solo.pc = "returned"
    /\ Len(SoloFacts) = 9
    /\ solo.numeral_system = "hexadecimal"
    /\ solo.digit_position = 0
    /\ solo.result.conclusion = InsufficientSample

\* The sum of f over the keys in S.
RECURSIVE SumOver(_, _)
SumOver(f, S) ==
    IF S = {} THEN 0
    ELSE LET d == CHOOSE x \in S : TRUE IN f[d] + SumOver(f, S \ {d})

\* The digit range of the specification: 1..base-1 at position 1, 0..base-1
\* at any other position.
DigitRange(base, position) == (IF position = 1 THEN 1 ELSE 0)..(base - 1)

\* C8: in every non-empty result the observed counts, which are keyed by the
\* digits of the digit range, sum to sample_size, and the observed frequency
\* of each digit is its count divided by sample_size.
C8_CountsSum ==
    (solo.pc = "returned" /\ solo.result.counts # << >>) =>
        LET r == solo.result
            n == r.metadata.sample_size
            keys == {FormatDigit(d) : d \in DigitRange(solo.base, solo.digit_position)}
        IN  /\ DOMAIN r.counts = keys
            /\ DOMAIN r.actual = keys
            /\ n > 0
            /\ SumOver(r.counts, keys) = n
            /\ \A k \in keys : r.actual[k] = <<r.counts[k], n>>

\* A non-empty result of a call one of whose facts has no leading digit (so
\* that sample_size is below the number of facts), with two digits observed.
C8_Witness ==
    /\ solo.pc = "returned"
    /\ solo.result.counts # << >>
    /\ solo.result.metadata.sample_size < Len(solo.numbers)
    /\ Cardinality({k \in DOMAIN solo.result.counts : solo.result.counts[k] > 0}) = 2

----------------------------------------------------------------------------
(* core/pdf_parser.py: extract_tables.  A page is [text, tables]; a raw     *)
(* table is a sequence of rows, a row a sequence of raw cells; a raw cell  *)
(* that is None is written as the empty text, which _clean_cell treats     *)
(* alike.                                                                  *)

\* The characters of the model that are outside [\w\s一-鿿\-\.].
Punctuation == {",", "(", ")", "%", "/", ":", "+", "$"}

\* re.sub(r'\s+', ' ', cell)
RECURSIVE CollapseWhitespace(_)
CollapseWhitespace(s) ==
    IF s = << >> THEN << >>
    ELSE IF Head(s) \in Whitespace
    THEN <<" ">> \o CollapseWhitespace(LStrip(Tail(s)))
    ELSE <<Head(s)>> \o CollapseWhitespace(Tail(s))

\* Lines 131-148: _clean_cell.
CleanCell(cell) ==
    IF cell = EmptyText THEN EmptyText
    ELSE Strip(CollapseWhitespace(SelectSeq(cell, LAMBDA c : c \notin Punctuation)))

\* float(value) succeeds on a string of digits, '-' and '.'.
FloatParses(s) ==
    LET body == IF s # << >> /\ Head(s) = "-" THEN Tail(s) ELSE s
        dot  == DotAt(body)
        int  == IF dot = 0 THEN body ELSE SubSeq(body, 1, dot - 1)
        frac == IF dot = 0 THEN << >> ELSE SubSeq(body, dot + 1, Len(body))
        digits(x) == \A i \in 1..Len(x) : IsDigit(x[i])
    IN  digits(int) /\ digits(frac) /\ Len(int) + Len(frac) > 0

ZeroFloat == [neg |-> FALSE, ip |-> 0, fp |-> << >>]

\* Lines 150-169: _convert_to_numeric.
ConvertToNumeric(value) ==
    IF value = EmptyText THEN ZeroFloat
    ELSE LET kept == SelectSeq(value, LAMBDA c : IsDigit(c) \/ c = "-" \/ c = ".")
         IN  IF FloatParses(kept) THEN ParseFloat(kept) ELSE ZeroFloat

\* Lines 86-87 and 101-102: a row padded with '' or cut to n columns.
PadOrCut(row, n) ==
    IF Len(row) < n THEN row \o [i \in 1..(n - Len(row)) |-> EmptyText]
    ELSE SubSeq(row, 1, n)

MaxOf(S) == CHOOSE x \in S : \A y \in S : y <= x

\* Lines 73-77: the cleaned rows that are not empty.
CleanTable(table) ==
    SelectSeq([r \in 1..Len(table) |->
                  [c \in 1..Len(table[r]) |-> CleanCell(table[r][c])]],
              LAMBDA row : \E c \in 1..Len(row) : row[c] # EmptyText)

\* A reconciliation that brings every row to the width of the first row.
ReconcileToFirst(cleaned_table) ==
    [r \in 1..Len(cleaned_table) |->
        PadOrCut(cleaned_table[r], Len(cleaned_table[1]))]

\* Lines 81-89: the rows brought to the width of the longest one, when the
\* widths differ.
Reconcile(cleaned_table) ==
    IF \A r \in 1..Len(cleaned_table) : Len(cleaned_table[r]) = Len(cleaned_table[1])
    THEN cleaned_table
    ELSE LET max_cols == MaxOf({Len(cleaned_table[r]) : r \in 1..Len(cleaned_table)})
         IN  [r \in 1..Len(cleaned_table) |-> PadOrCut(cleaned_table[r], max_cols)]

\* Lines 52-90: the rows one raw table adds to all_data.
CaptureTable(table) ==
    IF Len(table) > 1
    THEN LET cleaned_table == CleanTable([table EXCEPT ![1] = HeaderRepair(table[1])])
         IN  IF Len(cleaned_table) > 1 THEN Reconcile(cleaned_table) ELSE << >>
    ELSE << >>

\* Line 51: the rows the tables of one page add, from table t on.
RECURSIVE CapturePage(_, _)
CapturePage(tables, t) ==
    IF t > Len(tables) THEN << >>
    ELSE CaptureTable(tables[t]) \o CapturePage(tables, t + 1)

\* Lines 49-90: all_data of the pages i..end_page-1 (0-based).
RECURSIVE CapturePages(_, _, _)
CapturePages(pages, i, end_page) ==
    IF i >= end_page THEN << >>
    ELSE CapturePage(pages[i + 1].tables, 1) \o CapturePages(pages, i + 1, end_page)

\* pd.DataFrame()
EmptyFrame == [columns |-> << >>, rows |-> << >>]

\* df.empty
FrameIsEmpty(df) == df.columns = << >> \/ df.rows = << >>

\* Lines 116-125: the column is converted to numbers unless its name holds
\* "项目" or "附注"; on a name that several columns bear, apply raises and the
\* column is left as it is.
ColumnConverted(columns, c) ==
    /\ ~Contains(columns[c], XiangMu)
    /\ ~Contains(columns[c], FuZhu)
    /\ Cardinality({b \in 1..Len(columns) : columns[b] = columns[c]}) = 1

\* Lines 92-129: the DataFrame made of all_data.  Its cells are '' at least,
\* never NaN, so the two dropna of line 113 drop nothing.
BuildFrame(all_data) ==
    IF all_data = << >> THEN EmptyFrame
    ELSE LET headers == all_data[1]
             data    == [r \in 1..(Len(all_data) - 1) |->
                            PadOrCut(all_data[r + 1], Len(headers))]
             columns == [c \in 1..Len(headers) |-> CleanCell(headers[c])]
         IN  [columns |-> columns,
              rows    |-> [r \in 1..Len(data) |-> [c \in 1..Len(columns) |->
                              IF ColumnConverted(columns, c)
                              THEN FloatCell(ConvertToNumeric(data[r][c]))
                              ELSE StrCell(data[r][c])]]]

\* Lines 40-129: extract_tables on an opened document.
ExtractTables(pages) ==
    LET range == FindPageRange(pages, KwStart, KwEnd)
    IN  IF range[1] = None \/ range[2] = None THEN EmptyFrame
        ELSE BuildFrame(CapturePages(pages, range[1], range[2]))

----------------------------------------------------------------------------
(* Specification of the capture: the tables pdfplumber yields on the pages *)
(* of the section go through the capture loop of extract_tables, the       *)
(* DataFrame is made of them, and the harvester runs on the DataFrame.     *)
(* Every header of the model has distinct names, apart from empty ones:    *)
(* the source raises on a DataFrame with a name that two harvested         *)
(* columns bear.                                                           *)

\* "注1", a reference to a note.
Text_NoteRef == <<"U6CE8", "1">>
\* "第3季度", a label with a number in it.
Text_Quarter == <<"U7B2C", "3", "U5B63", "U5EA6">>
\* "2021年"
Text_Year == <<"2", "0", "2", "1", "U5E74">>

\* The texts a cell of a value column is checked with.
CaptureProbes == {
    <<"3">>,
    <<"1", ",", "2", "3", "4", ".", "5", "0">>,
    <<"(", "2", "9", ")">>,
    <<"-", "1", "2", ".", "5">>,
    Text_NoteRef,
    Text_Quarter,
    Text_Year,
    <<"1", "2", "a">>,
    <<"1", "-", "2">>,
    <<"a", "b", "c">>,
    <<"-">>,
    EmptyText }

BalanceHeader == <<XiangMu, FuZhu, QiMoYuE, QiChuYuE>>

\* A header of nine cells, as pdfplumber yields it when it splits the
\* columns of the balance sheet: the two balance labels stand one cell to
\* the right of their amounts.
WideHeader ==
    <<XiangMu, FuZhu, EmptyText, EmptyText, QiMoYuE, EmptyText, EmptyText,
      QiChuYuE, EmptyText>>

\* A header without a column of items: the first column is the label column.
PlainBalanceHeader == <<<<"A">>, QiMoYuE, QiChuYuE>>

CaptureHeaders ==
    {SubSeq(BalanceHeader, 1, 3), BalanceHeader, WideHeader, PlainBalanceHeader}

\* A data row of k cells, the label and the probe in every other cell; for
\* k = 0 a row of two empty cells.
DataRow(k, probe) ==
    IF k = 0 THEN <<EmptyText, EmptyText>>
    ELSE <<Text_Cash>> \o [i \in 1..(k - 1) |-> probe]

DataRowCounts == {1, 2}

\* The tables with one of the headers and one or two data rows, and those
\* with one data row that holds the probe in every cell, the first included.
CaptureTables ==
    {<<h>> \o [r \in 1..Len(ks) |-> DataRow(ks[r], probe)] :
        h \in CaptureHeaders, probe \in CaptureProbes,
        ks \in UNION {[1..n -> 0..MaxRowLen \cup {9}] : n \in DataRowCounts}}
    \cup {<<h, [c \in 1..Len(h) |-> probe]>> :
              h \in CaptureHeaders, probe \in CaptureProbes}

\* The tables that may follow the first one on the page.
FollowingTables ==
    {<<SubSeq(BalanceHeader, 1, w), DataRow(w, <<"3">>)>> : w \in {2, 4}}

CaptureInputs ==
    {<<t>> : t \in CaptureTables}
    \cup {<<t, u>> : t \in CaptureTables, u \in FollowingTables}

InitCapture ==
    /\ pipe \in {[tables |-> ts, pc |-> "start", parts |-> << >>,
                  all_data |-> << >>, df |-> EmptyFrame, facts |-> << >>] :
                    ts \in CaptureInputs}
    /\ header = << >>
    /\ IdleParser /\ IdleHarvest /\ IdleCall /\ IdleApp /\ IdleCache

\* pdf_parser.py lines 51-90: the capture loop over the tables of the page;
\* parts keeps what each table added to all_data.
Capture ==
    /\ pipe.pc = "start"
    /\ pipe' = [pipe EXCEPT
           !.pc = "captured",
           !.parts = [t \in 1..Len(pipe.tables) |-> CaptureTable(pipe.tables[t])],
           !.all_data = CapturePage(pipe.tables, 1)]
    /\ UNCHANGED <<header, parserVars, harvestVars, callVars, appVars, cacheVars>>

\* pdf_parser.py lines 92-129: the DataFrame is made of all_data.
Frame ==
    /\ pipe.pc = "captured"
    /\ pipe' = [pipe EXCEPT !.pc = "framed", !.df = BuildFrame(pipe.all_data)]
    /\ UNCHANGED <<header, parserVars, harvestVars, callVars, appVars, cacheVars>>

\* app.py lines 89-92 and benford_analyzer.py line 24: the harvester runs
\* on the DataFrame, unless it is empty.
HarvestFrame ==
    /\ pipe.pc = "framed"
    /\ ~FrameIsEmpty(pipe.df)
    /\ pipe' = [pipe EXCEPT !.pc = "harvested",
                            !.facts = ExtractValidNumbers(pipe.df)[2]]
    /\ UNCHANGED <<header, parserVars, harvestVars, callVars, appVars, cacheVars>>

NextCapture == Capture \/ Frame \/ HarvestFrame

SpecCapture == InitCapture /\ [][NextCapture]_vars

----------------------------------------------------------------------------
(* C11 *)

\* The cleaned rows of table t of the page that are not empty, the header
\* repaired.
CleanedRows(t) ==
    CleanTable([pipe.tables[t] EXCEPT ![1] = HeaderRepair(pipe.tables[t][1])])

\* The row brought to n cells: '' added at the end, or cells cut at the end.
ToWidth(row, n) == [c \in 1..n |-> IF c <= Len(row) THEN row[c] ELSE EmptyText]

WidthsOf(rows) == {Len(rows[r]) : r \in 1..Len(rows)}

\* C11 as stated: within a captured table every cleaned row is padded or
\* truncated to the column count of the first row, which is never changed.
C11_AsStated ==
    pipe.pc # "start" =>
        \A t \in 1..Len(pipe.tables) :
            LET rows == CleanedRows(t) IN
            Len(rows) > 1 =>
                pipe.parts[t] = [r \in 1..Len(rows) |-> ToWidth(rows[r], Len(rows[1]))]

\* C11 amended: within a captured table every cleaned row, the first one
\* included, is padded at the end with empty strings to the column count of
\* the longest row of the table, and no row is truncated; when the
\* DataFrame is made, every row after the first of all the rows captured is
\* padded or truncated to the column count of that first row.
C11_Reconcile ==
    /\ pipe.pc # "start" =>
           \A t \in 1..Len(pipe.tables) :
               LET rows == CleanedRows(t) IN
               Len(rows) > 1 =>
                   \E w \in WidthsOf(rows) :
                       /\ \A v \in WidthsOf(rows) : v <= w
                       /\ pipe.parts[t] = [r \in 1..Len(rows) |-> ToWidth(rows[r], w)]
    /\ (pipe.pc \in {"framed", "harvested"} /\ pipe.all_data # << >>) =>
           /\ Len(pipe.df.columns) = Len(pipe.all_data[1])
           /\ Len(pipe.df.rows) = Len(pipe.all_data) - 1
           /\ \A r \in 1..Len(pipe.df.rows) :
                  /\ Len(pipe.df.rows[r]) = Len(pipe.all_data[1])
                  /\ \A c \in 1..Len(pipe.df.rows[r]) :
                         pipe.df.rows[r][c].kind = "str" =>
                             pipe.df.rows[r][c].chars =
                                 ToWidth(pipe.all_data[r + 1], Len(pipe.all_data[1]))[c]

\* A table with a data row longer than its header and a data row shorter
\* than it was captured, a second table followed it, and the DataFrame was
\* made of the rows of both.
C11_Witness ==
    /\ pipe.pc = "framed"
    /\ Len(pipe.tables) = 2
    /\ Len(pipe.df.rows) = 4
    /\ LET rows == CleanedRows(1) IN
       /\ Len(rows) = 3
       /\ Len(rows[2]) > Len(rows[1])
       /\ Len(rows[3]) < Len(rows[1])

----------------------------------------------------------------------------
(* C12 *)

\* The columns of the DataFrame that bear the name of the fact.
ColumnsNamed(name) ==
    {c \in 1..Len(pipe.df.columns) : pipe.df.columns[c] = name}

\* The cleaned text of the cell at row idx (0-based) and column c of the
\* DataFrame, as the capture loop left it in all_data.
CleanedText(idx, c) ==
    ToWidth(pipe.all_data[idx + 2], Len(pipe.all_data[1]))[c]

\* An optional '-', digits, and optionally '.' and digits.
IsPlainNumeral(s) ==
    LET body == IF s # << >> /\ Head(s) = "-" THEN Tail(s) ELSE s
        dots == {i \in 1..Len(body) : body[i] = "."}
    IN  /\ body # << >>
        /\ \A i \in 1..Len(body) : IsDigit(body[i]) \/ i \in dots
        /\ Cardinality(dots) <= 1
        /\ \A i \in dots : 1 < i /\ i < Len(body)

\* C12: in the pipeline of extraction and harvesting, every fact comes from
\* a cell whose cleaned text is a plain decimal numeral; a cell of free
\* text, with digits in it or not, yields no fact.
C12_AsStated ==
    pipe.pc = "harvested" =>
        \A i \in 1..Len(pipe.facts) :
            \A c \in ColumnsNamed(pipe.facts[i].column_name) :
                IsPlainNumeral(CleanedText(pipe.facts[i].row_index, c))

----------------------------------------------------------------------------
(* C14 *)

\* The name as the harvester cleans it: lower case, blanks and line breaks
\* removed.
CleanedName(name) ==
    SelectSeq(Lower(name), LAMBDA ch : ch # " " /\ ch # "\n")

HoldsItemWord(name) ==
    Contains(Lower(name), XiangMu) \/ Contains(Lower(name), <<"i", "t", "e", "m">>)

\* The name of the label column: that of the first column whose name holds
\* "项目" or "item", or else that of the first column.
LabelName ==
    LET cols == pipe.df.columns
        hits == {c \in 1..Len(cols) : HoldsItemWord(cols[c])}
    IN  IF hits = {} THEN cols[1] ELSE cols[FirstOf(hits)]

HoldsNoteWord(name) ==
    \E w \in {FuZhu, <<"n", "o", "t", "e">>, ZhuShi, HangCi} :
        Contains(CleanedName(name), w)

\* The columns (1-based) whose header cell the header repair blanked.
BlankedByRepair ==
    IF Len(pipe.tables[1][1]) = 9 THEN {5, 8} ELSE {}

\* C14: no fact comes from the label column, from a column whose cleaned
\* name holds a note or row-index keyword, or from a column whose cleaned
\* name is empty; so no fact comes from a cell under a header cell that the
\* header repair blanked, whatever the cell holds.
C14_Exclusion ==
    pipe.pc = "harvested" =>
        \A i \in 1..Len(pipe.facts) :
            LET name == pipe.facts[i].column_name IN
            /\ CleanedName(name) # EmptyText
            /\ name # LabelName
            /\ ~HoldsNoteWord(name)
            /\ ColumnsNamed(name) \cap BlankedByRepair = {}
            /\ ColumnsNamed(name) # {}

\* The harvester ran on a table with a repaired nine-cell header whose data
\* row holds the numeral 3 in every cell, the label column, the note column
\* and the columns under the blanked header cells included, and it made
\* facts of the two balance columns only.
C14_Witness ==
    /\ pipe.pc = "harvested"
    /\ Len(pipe.tables) = 1
    /\ pipe.tables[1] = <<WideHeader, [c \in 1..9 |-> <<"3">>]>>
    /\ pipe.df.columns[4] = QiMoYuE /\ pipe.df.columns[5] = EmptyText
    /\ pipe.df.columns[7] = QiChuYuE /\ pipe.df.columns[8] = EmptyText
    /\ Len(pipe.facts) = 2

----------------------------------------------------------------------------
(* app.py and core/pdf_downloader.py: the /api/analyze handler.            *)
(*                                                                         *)
(* fs is the temp_reports directory: fs.paths maps a path to the file it   *)
(* names (0 for none) and fs.files holds the files, each with its content  *)
(* and the request that created it.  A file that is unlinked stays in      *)
(* fs.files, as it stays open for who had opened it.  The content of a     *)
(* file is a whole document (a sequence of pages) or Truncated.            *)

Requests == {"r1", "r2"}

\* What open(path, 'wb') and an interrupted download leave: no whole PDF.
Truncated == [whole |-> FALSE, doc |-> << >>]

Whole(doc) == [whole |-> TRUE, doc |-> doc]

\* The header and the rows of the balance sheet of the documents.
SheetHeader == <<XiangMu, FuZhu, QiMoYuE, QiChuYuE>>

SheetRow(a, b) == <<Text_Cash, <<"1">>, a, b>>

SheetRows == <<
    SheetRow(<<"3">>, <<"2", "9">>),
    SheetRow(<<"1", ",", "2", "3", "4", ".", "5", "0">>, <<"1", "1", "7">>),
    SheetRow(<<"(", "2", "9", ")">>, <<"3">>),
    SheetRow(<<"1", "2", ".", "5">>, <<"1", "1", "7">>),
    SheetRow(<<"2", "9">>, <<"3">>) >>

\* A report whose balance sheet has ten amounts.
DocEnough == <<
    [text |-> {KwPreamble, KwStart, KwItem}, tables |-> <<<<SheetHeader>> \o SheetRows>>],
    [text |-> {KwEnd}, tables |-> << >>] >>

\* A report whose balance sheet has two amounts.
DocFew == <<
    [text |-> {KwPreamble, KwStart, KwItem}, tables |-> <<<<SheetHeader, SheetRows[1]>>>>],
    [text |-> {KwEnd}, tables |-> << >>] >>

\* A document without the statement section.
DocNoSection == <<
    [text |-> {KwItem}, tables |-> <<<<SheetHeader>> \o SheetRows>>] >>

\* excel_reader.stock_map: the reports the lookup table knows, by the key
\* f"{code}_{year}", each with the document its URL serves.
StockMap == [k \in {<<"600000", "2023">>} |-> DocEnough]

\* excel_reader.py lines 110-113 (the codes of the model have six digits, so
\* zfill(6) leaves them as they are).
FindReportUrl(stock_code, year) ==
    IF <<stock_code, year>> \in DOMAIN StockMap THEN <<stock_code, year>> ELSE <<"None">>

\* app.py lines 63-64: the path of an upload, unique by uuid4.
UploadPath(r) == <<"upload", r>>

\* pdf_downloader.py lines 25-26: the path of a downloaded report.
SavePath(stock_code, year) == <<"report", stock_code, year>>

NoPath == <<"None">>

\* int(x) succeeds.
IntParses(s) == AllDigits(IF s # << >> /\ Head(s) = "-" THEN Tail(s) ELSE s)

RequestInputs ==
    [route : {"upload"}, filename : {""}, stock_code : {"MANUAL_UPLOAD"},
     year : {"N/A"}, digit_position : {<<"1">>}, numeral_system : {"decimal"},
     doc : {DocEnough}]
    \cup
    [route : {"upload"}, filename : {"report.pdf"}, stock_code : {"MANUAL_UPLOAD"},
     year : {"N/A"}, digit_position : {<<"1">>, <<"2">>},
     numeral_system : {"decimal", "binary"}, doc : {DocEnough, DocNoSection}]
    \cup
    [route : {"upload"}, filename : {"report.pdf"}, stock_code : {"MANUAL_UPLOAD"},
     year : {"N/A"}, digit_position : {<<"1">>}, numeral_system : {"decimal"},
     doc : {DocFew}]
    \cup
    [route : {"json"}, filename : {""}, stock_code : {"600000"},
     year : {"1999"}, digit_position : {<<"1">>, <<"x">>},
     numeral_system : {"decimal"}, doc : {<< >>}]
    \cup
    [route : {"json"}, filename : {""}, stock_code : {"600000"},
     year : {"2023"}, digit_position : {<<"1">>, <<"2">>},
     numeral_system : {"decimal", "binary"}, doc : {<< >>}]

NoResponse == [status |-> 0, body |-> [error |-> "none"]]

Failure(status, message) == [status |-> status, body |-> [error |-> message]]

\* The digits 0..15 in the order of sort_key (app.py lines 98-102).
RECURSIVE SortedLabels(_, _)
SortedLabels(keys, d) ==
    IF d > 15 THEN << >>
    ELSE (IF FormatDigit(d) \in keys THEN <<FormatDigit(d)>> ELSE << >>)
         \o SortedLabels(keys, d + 1)

\* app.py lines 98-124: the response made of the result of analyze.
Success(result, in) ==
    LET labels == SortedLabels(DOMAIN result.actual, 0)
        theo   == result.metadata.theoretical_distribution
    IN  [status |-> 200,
         body |-> [labels |-> labels,
                   actual_freq |-> [i \in 1..Len(labels) |-> result.actual[labels[i]]],
                   theoretical_freq |-> [i \in 1..Len(labels) |-> theo[labels[i]]],
                   counts |-> [i \in 1..Len(labels) |-> result.counts[labels[i]]],
                   chi_square |-> result.chi_square,
                   p_value |-> result.metadata.p_value,
                   critical_value |-> result.metadata.critical_value_95,
                   degrees_of_freedom |-> result.metadata.degrees_of_freedom,
                   conclusion |-> result.conclusion,
                   stock_code |-> in.stock_code,
                   year |-> in.year,
                   sample_size |-> result.metadata.sample_size,
                   numeral_system |-> in.numeral_system,
                   raw_data |-> result.raw_records]]

NewRequest(in) ==
    [pc |-> "received", in |-> in, pdf_path |-> NoPath, fd |-> 0,
     pending |-> NoResponse, response |-> NoResponse, net |-> "none",
     did |-> {}]

PathsOf == {UploadPath(r) : r \in Requests}
           \cup {SavePath(k[1], k[2]) : k \in DOMAIN StockMap}

InitApp ==
    /\ req \in [Requests -> {NewRequest(in) : in \in RequestInputs}]
    /\ fs = [paths |-> [p \in PathsOf |-> 0], files |-> << >>]
    /\ call = [r \in Requests |-> NoCall]
    /\ heap = << >> /\ cache = << >> /\ returned = {}
    /\ IdleParser /\ IdleRepair /\ IdleHarvest

Respond(r, response) ==
    req' = [req EXCEPT ![r].pc = "done", ![r].response = response]

\* app.py lines 55-79: the parameters are read; an upload is saved.
Receive(r) ==
    /\ req[r].pc = "received"
    /\ LET in == req[r].in IN
       IF in.route = "upload"
       THEN IF in.filename = ""
            THEN Respond(r, Failure(400, "no file selected")) /\ UNCHANGED fs
            ELSE IF ~IntParses(in.digit_position)
            THEN Respond(r, Failure(500, "ValueError")) /\ UNCHANGED fs
            ELSE /\ fs' = [paths |-> [fs.paths EXCEPT ![UploadPath(r)] = Len(fs.files) + 1],
                           files |-> Append(fs.files, [content |-> Whole(in.doc), creator |-> r])]
                 /\ req' = [req EXCEPT ![r].pc = "extract",
                                       ![r].pdf_path = UploadPath(r),
                                       ![r].did = @ \cup {"save"}]
       ELSE IF ~IntParses(in.digit_position)
            THEN Respond(r, Failure(500, "ValueError")) /\ UNCHANGED fs
            ELSE IF FindReportUrl(in.stock_code, in.year) = <<"None">>
            THEN Respond(r, Failure(404, "no report link")) /\ UNCHANGED fs
            ELSE req' = [req EXCEPT ![r].pc = "download"] /\ UNCHANGED fs
    /\ UNCHANGED <<parserVars, repairVars, harvestVars, callVars, cacheVars>>

\* pdf_downloader.py lines 29-30 and 40-42: the request of the URL fails;
\* download_pdf returns None and the handler answers 500 (app.py 82-83).
DownloadRefused(r) ==
    /\ req[r].pc = "download"
    /\ req' = [req EXCEPT ![r].pc = "done", ![r].net = "refused",
                          ![r].did = @ \cup {"download"},
                          ![r].response = Failure(500, "download failed")]
    /\ UNCHANGED <<fs, parserVars, repairVars, harvestVars, callVars, cacheVars>>

\* pdf_downloader.py lines 25-33: the URL answers and open(save_path, 'wb')
\* creates the file, or empties the file that is there.
DownloadOpen(r) ==
    /\ req[r].pc = "download"
    /\ LET path == SavePath(req[r].in.stock_code, req[r].in.year)
           old  == fs.paths[path]
       IN  IF old # 0
           THEN /\ fs' = [fs EXCEPT !.files[old].content = Truncated]
                /\ req' = [req EXCEPT ![r].pc = "writing", ![r].fd = old,
                                      ![r].did = @ \cup {"download"}]
           ELSE /\ fs' = [paths |-> [fs.paths EXCEPT ![path] = Len(fs.files) + 1],
                          files |-> Append(fs.files,
                                       [content |-> Truncated, creator |-> r])]
                /\ req' = [req EXCEPT ![r].pc = "writing",
                                      ![r].fd = Len(fs.files) + 1,
                                      ![r].did = @ \cup {"download"}]
    /\ UNCHANGED <<parserVars, repairVars, harvestVars, callVars, cacheVars>>

\* pdf_downloader.py lines 34-36 and 40-42: the stream breaks midway; the
\* file keeps what was written, download_pdf returns None and the handler
\* answers 500 with pdf_path still None.
DownloadBroken(r) ==
    /\ req[r].pc = "writing"
    /\ req' = [req EXCEPT ![r].pc = "done", ![r].net = "broken",
                          ![r].response = Failure(500, "download failed")]
    /\ UNCHANGED <<fs, parserVars, repairVars, harvestVars, callVars, cacheVars>>

\* pdf_downloader.py lines 34-38: every chunk is written and save_path is
\* returned (app.py line 81).
DownloadDone(r) ==
    /\ req[r].pc = "writing"
    /\ LET in == req[r].in IN
       /\ fs' = [fs EXCEPT !.files[req[r].fd].content =
                               Whole(StockMap[FindReportUrl(in.stock_code, in.year)])]
       /\ req' = [req EXCEPT ![r].pc = "extract", ![r].net = "ok",
                             ![r].pdf_path = SavePath(in.stock_code, in.year)]
    /\ UNCHANGED <<parserVars, repairVars, harvestVars, callVars, cacheVars>>

\* app.py lines 87-90: extract_tables opens the file at pdf_path and reads
\* the tables.  A file that is not there, or is no whole PDF, raises.
Extract(r) ==
    /\ req[r].pc = "extract"
    /\ LET file == fs.paths[req[r].pdf_path] IN
       IF file = 0
       THEN /\ req' = [req EXCEPT ![r].pc = "finally",
                                  ![r].pending = Failure(500, "FileNotFoundError")]
            /\ UNCHANGED call
       ELSE IF ~fs.files[file].content.whole
       THEN /\ req' = [req EXCEPT ![r].pc = "finally",
                                  ![r].did = @ \cup {"open"},
                                  ![r].pending = Failure(500, "PDFSyntaxError")]
            /\ UNCHANGED call
       ELSE LET df == ExtractTables(fs.files[file].content.doc) IN
            IF FrameIsEmpty(df)
            THEN /\ req' = [req EXCEPT ![r].pc = "finally",
                                       ![r].did = @ \cup {"open", "extract"},
                                       ![r].pending = Failure(400, "no table found")]
                 /\ UNCHANGED call
            ELSE /\ req' = [req EXCEPT ![r].pc = "analyze",
                                       ![r].did = @ \cup {"open", "extract"}]
                 /\ call' = [call EXCEPT ![r] =
                                NewCall(df, ParseInt(req[r].in.digit_position),
                                        req[r].in.numeral_system)]
    /\ UNCHANGED <<fs, parserVars, repairVars, harvestVars, cacheVars>>

\* app.py lines 92-124: analyze has returned, and the response is made, or
\* has raised.
Analyzed(r) ==
    /\ req[r].pc = "analyze"
    /\ call[r].pc \in {"returned", "raised"}
    /\ req' = [req EXCEPT
           ![r].pc = "finally",
           ![r].pending = IF call[r].pc = "raised"
                          THEN Failure(500, "unsupported numeral system")
                          ELSE Success(call[r].result, req[r].in)]
    /\ UNCHANGED <<fs, parserVars, repairVars, harvestVars, callVars, cacheVars>>

\* app.py lines 126-131: the file at pdf_path, if there is one, is removed.
FinallyRemove(paths, pdf_path) ==
    IF pdf_path # NoPath /\ paths[pdf_path] # 0
    THEN [paths EXCEPT ![pdf_path] = 0]
    ELSE paths

\* app.py lines 126-136: the finally block runs and the response is sent.
Finally(r) ==
    /\ req[r].pc = "finally"
    /\ fs' = [fs EXCEPT !.paths = FinallyRemove(fs.paths, req[r].pdf_path)]
    /\ req' = [req EXCEPT ![r].pc = "done", ![r].response = req[r].pending]
    /\ UNCHANGED <<parserVars, repairVars, harvestVars, callVars, cacheVars>>

\* analyzer.analyze runs on behalf of the request.
Analyze(r) == req[r].pc = "analyze" /\ AnalyzeStep(r)

Handle(r) ==
    \/ Receive(r)
    \/ DownloadRefused(r)
    \/ DownloadOpen(r)
    \/ DownloadBroken(r)
    \/ DownloadDone(r)
    \/ Extract(r)
    \/ Analyze(r)
    \/ Analyzed(r)
    \/ Finally(r)

Next == \E r \in Requests : Handle(r)

Spec == InitApp /\ [][Next]_vars

----------------------------------------------------------------------------
(* Claims about the request handler.                                       *)

ParsingWork == {"download", "open", "extract"}

ConfigurationError == Failure(500, "unsupported numeral system")

\* C1: a request whose numeral_system is not decimal, octal or hexadecimal
\* ends in a configuration error, and no download, document-open or
\* table-extraction step has happened on its behalf before the error.
C1_AsStated ==
    \A r \in Requests :
        req[r].in.numeral_system \notin {"decimal", "octal", "hexadecimal"} =>
            /\ req[r].did \cap ParsingWork = {}
            /\ req[r].pc = "done" => req[r].response = ConfigurationError

\* The files of the directory that the request created.
FilesLeftBy(r) ==
    {p \in PathsOf : fs.paths[p] # 0 /\ fs.files[fs.paths[p]].creator = r}

\* C3: once a request has returned, every temporary file created on its
\* behalf, a partially downloaded one included, has been removed.
C3_AsStated ==
    \A r \in Requests : req[r].pc = "done" => FilesLeftBy(r) = {}

\* What analyze does with a frame when no other call runs.
AnalyzeAlone(df, digit_position, numeral_system) ==
    IF numeral_system \notin DOMAIN base_map
    THEN [raised |-> TRUE, result |-> << >>]
    ELSE LET base == base_map[numeral_system]
             h    == ExtractValidNumbers(df)
         IN  IF SampleTooSmall(h[1])
             THEN [raised |-> FALSE,
                   result |-> EmptyResult(InsufficientSample, base, digit_position)]
             ELSE LET dist == TheoreticalDistribution(base, digit_position)
                      acc  == CountDigits(h[1], h[2], base, digit_position,
                                          DOMAIN dist)
                  IN  [raised |-> FALSE,
                       result |->
                           IF acc.valid_sample_count = 0
                           THEN EmptyResult(NoValidDigit, base, digit_position)
                           ELSE FullResult(acc.counts, dist, acc.valid_sample_count,
                                           acc.enriched, base, digit_position,
                                           numeral_system)]

\* The response to a request whose document arrived whole, run alone.
ParsedAlone(in, doc) ==
    LET df == ExtractTables(doc) IN
    IF FrameIsEmpty(df) THEN Failure(400, "no table found")
    ELSE LET a == AnalyzeAlone(df, ParseInt(in.digit_position), in.numeral_system)
         IN  IF a.raised THEN ConfigurationError ELSE Success(a.result, in)

\* The response the request would get when run alone, the network behaving
\* as it did for it.
AloneResponse(r) ==
    LET in == req[r].in IN
    IF in.route = "upload"
    THEN IF in.filename = "" THEN Failure(400, "no file selected")
         ELSE IF ~IntParses(in.digit_position) THEN Failure(500, "ValueError")
         ELSE ParsedAlone(in, in.doc)
    ELSE IF ~IntParses(in.digit_position) THEN Failure(500, "ValueError")
         ELSE IF FindReportUrl(in.stock_code, in.year) = <<"None">>
         THEN Failure(404, "no report link")
         ELSE IF req[r].net # "ok" THEN Failure(500, "download failed")
         ELSE ParsedAlone(in, StockMap[FindReportUrl(in.stock_code, in.year)])

\* The document the request is about to parse.
OwnDocument(r) ==
    IF req[r].in.route = "upload" THEN req[r].in.doc
    ELSE StockMap[FindReportUrl(req[r].in.stock_code, req[r].in.year)]

\* C4: two concurrent requests are independent: the file one request is
\* about to parse is there, whole, whatever the other request does, and the
\* response of each request is the one it would get when run alone.
C4_AsStated ==
    \A r \in Requests :
        /\ req[r].pc = "extract" =>
               /\ fs.paths[req[r].pdf_path] # 0
               /\ fs.files[fs.paths[req[r].pdf_path]].content = Whole(OwnDocument(r))
        /\ req[r].pc = "done" => req[r].response = AloneResponse(r)

\* C10: the cache of theoretical distributions is coherent under concurrent
\* calls: every call for one (base, position) returns a mapping with the
\* same contents, and the contents of an entry visible in the cache never
\* change afterwards.
C10_CacheCoherent ==
    /\ [](\A a, b \in returned : a[1] = b[1] => a[2] = b[2])
    /\ [][\A k \in DOMAIN cache :
              k \in DOMAIN cache' /\ heap'[cache'[k]] = heap[cache[k]]]_vars

\* Two requests missed the cache for one key, both stored their dict, and
\* both went on to count their digits.
C10_Witness ==
    /\ Len(heap) = 2
    /\ Cardinality(DOMAIN cache) = 1
    /\ \A r \in Requests : call[r].pc = "returned"

====
